---- MODULE Spec2Model ----
(***************************************************************************)
(* nautilus.py: the DescribeK8s facade and the main() that drives it.      *)
(* The Kubernetes client, the kube-config loader, the YAML reader and the  *)
(* file system are the environment: every call into them is recorded in    *)
(* `calls` (or `loads`) and its outcome is drawn nondeterministically.     *)
(* Every print() is recorded, in order, in `out`.                          *)
(***************************************************************************)
EXTENDS Integers, Sequences, FiniteSets, TLC

VARIABLES
    args,        \* the argparse namespace returned by parse_args()
    pc,          \* main()'s position
    self,        \* the facade's attributes (a function attribute name -> value)
    kubeContext, \* the context the client configuration is bound to
    loads,       \* arguments of the load_kube_config calls made, in order
    calls,       \* the API calls made, in order, with their outcome
    out,         \* the lines printed, in order
    dispatched,  \* the facade methods main() has invoked, in order
    exc,         \* the exception that left main(), "none" if none did
    ret,         \* the value returned by the last facade method
    file,        \* apply: the opened file's documents
    idx,         \* apply: the index of the next document of the loop
    now,         \* datetime.now(timezone.utc), in seconds
    age_in,      \* calculate_age: creation_time, in seconds
    age_out      \* calculate_age: the returned string

vars == <<args, pc, self, kubeContext, loads, calls, out, dispatched, exc, ret,
          file, idx, now, age_in, age_out>>

----------------------------------------------------------------------------
(* Bounds of the model.                                                    *)

MaxDocs == 2

MaxItems == 2

MaxAgeSeconds == 172900

----------------------------------------------------------------------------
(* Python values.                                                          *)

None == "<None>"

\* Python truthiness of an optional string (if args.namespace: ...).
Truthy(v) == v # None /\ v # ""

\* str.lower() on the strings the model draws.
Lower(s) ==
    CASE s = "Deployment" -> "deployment"
      [] s = "Service"    -> "service"
      [] s = "Pod"        -> "pod"
      [] s = "ConfigMap"  -> "configmap"
      [] s = "Job"        -> "job"
      [] OTHER            -> s

\* str.capitalize() on the lower-case strings the model draws.
Capitalize(s) ==
    CASE s = "deployment" -> "Deployment"
      [] s = "service"    -> "Service"
      [] s = "pod"        -> "Pod"
      [] OTHER            -> s

\* The sequences over S of length at most n.
SeqsUpTo(S, n) == UNION {[1..k -> S] : k \in 0..n}

\* The sequences over S of length at most n without a repeated element.
DistinctSeqsUpTo(S, n) ==
    {s \in SeqsUpTo(S, n) : \A i, j \in 1..Len(s) : i # j => s[i] # s[j]}

Range(s) == {s[i] : i \in 1..Len(s)}

----------------------------------------------------------------------------
(* The environment.                                                        *)

\* The contexts of the kube-config file and its current-context.
KnownContexts == {"dev", "staging"}

CurrentContext == "dev"

ApiHost == "https://10.0.0.1:6443"

\* e.status == 409: conflict, the resource already exists.
Conflict == 409

\* The outcome of a call into the client: it returns, or raises ApiException.
Ok == [raised |-> "none", status |-> 0]

ApiException(s) == [raised |-> "ApiException", status |-> s]

\* A list call that returns: the items of the returned list.
Returned(items) == [raised |-> "none", status |-> 0, items |-> items]

ListOutcomes == {Ok, ApiException(500)}

WriteOutcomes == {Ok, ApiException(Conflict), ApiException(500)}

NoBody == [absent |-> TRUE]

\* One recorded call: which handle, which method, with which arguments.
Call(api, op, ns, name, body, doc, res) ==
    [api |-> api, op |-> op, ns |-> ns, name |-> name, body |-> body,
     doc |-> doc, res |-> res]

----------------------------------------------------------------------------
(* The command line.                                                       *)

CreateArgs ==
    {<<>>} \cup {<<t, "web", "nginx">> : t \in {"Deployment", "service", "job"}}

ArgSpace ==
    [namespace      : {None, "prod"},
     cluster_info   : BOOLEAN,
     api_versions   : BOOLEAN,
     nodes          : BOOLEAN,
     list_namespaces: BOOLEAN,
     switch_context : {None, "staging", "ghost"},
     apply          : {None, "app.yaml"},
     create         : CreateArgs,
     replicas       : {<<>>, <<3>>},
     list_pods      : BOOLEAN]

\* The branch of main()'s if/elif chain that is taken.
Branch ==
    IF args.cluster_info THEN "print_cluster_info"
    ELSE IF args.api_versions THEN "print_api_versions"
    ELSE IF args.nodes THEN "print_nodes_info"
    ELSE IF args.list_namespaces THEN "print_namespaces_info"
    ELSE IF Truthy(args.switch_context) THEN "switch_context"
    ELSE IF Truthy(args.apply) THEN "apply"
    ELSE IF args.create # <<>> THEN "create"
    ELSE "none"

----------------------------------------------------------------------------
(* The facade.                                                             *)

HasAttr(a) == a \in DOMAIN self

NoFile == [docs |-> <<>>, bad |-> FALSE]

Init ==
    /\ args \in ArgSpace
    /\ pc = "construct"
    /\ self = [a \in {} |-> None]
    /\ kubeContext = None
    /\ loads = <<>>
    /\ calls = <<>>
    /\ out = <<>>
    /\ dispatched = <<>>
    /\ exc = "none"
    /\ ret = None
    /\ file = NoFile
    /\ idx = 0
    /\ now = 2 * MaxAgeSeconds
    /\ age_in = 0
    /\ age_out = None

\* k8s_cluster = DescribeK8s("default"): __init__ loads the default
\* configuration outside any try; a failure leaves main().
Construct ==
    /\ pc = "construct"
    /\ \/ /\ loads' = Append(loads, None)
          /\ kubeContext' = CurrentContext
          /\ self' = ("config" :> None) @@ ("namespace" :> "default")
                        @@ ("v1" :> "CoreV1Api")
          /\ pc' = "namespace"
          /\ exc' = exc
       \/ /\ loads' = Append(loads, None)
          /\ exc' = "ConfigException"
          /\ pc' = "crashed"
          /\ UNCHANGED <<kubeContext, self>>
    /\ UNCHANGED <<args, calls, out, dispatched, ret, file, idx, now, age_in, age_out>>

\* if args.namespace: k8s_cluster.set_namespace(args.namespace)
SetNamespace ==
    /\ pc = "namespace"
    /\ self' = IF Truthy(args.namespace)
               THEN [self EXCEPT !["namespace"] = args.namespace]
               ELSE self
    /\ pc' = "chain"
    /\ UNCHANGED <<args, kubeContext, loads, calls, out, dispatched, exc, ret,
                   file, idx, now, age_in, age_out>>

----------------------------------------------------------------------------
(* calculate_age.                                                          *)

SecondsPerDay == 24 * 60 * 60

\* now - creation_time: a timedelta, normalised to days and 0 <= seconds < 86400.
Timedelta(d) == [days |-> d \div SecondsPerDay, seconds |-> d % SecondsPerDay]

calculate_age_hours_off_by_one(creation_time) ==
    LET age == Timedelta(now - creation_time) IN
    IF age.days > 0 THEN ToString(age.days) \o "d"
    ELSE IF age.seconds > 3600 THEN ToString(age.seconds \div 3600) \o "h"
    ELSE IF age.seconds >= 60 THEN ToString(age.seconds \div 60) \o "m"
    ELSE ToString(age.seconds) \o "s"

calculate_age(creation_time) ==
    LET age == Timedelta(now - creation_time) IN
    IF age.days > 0 THEN ToString(age.days) \o "d"
    ELSE IF age.seconds >= 3600 THEN ToString(age.seconds \div 3600) \o "h"
    ELSE IF age.seconds >= 60 THEN ToString(age.seconds \div 60) \o "m"
    ELSE ToString(age.seconds) \o "s"

----------------------------------------------------------------------------
(* The read-only facade methods.                                           *)

\* What the cluster can return: nodes, namespaces, pods.
NodeSet ==
    {[name |-> "n1", phase |-> "Ready", kubelet |-> "v1.28", os |-> "linux",
      runtime |-> "containerd", addresses |-> <<<<"InternalIP", "10.0.0.2">>>>],
     [name |-> "n2", phase |-> "Ready", kubelet |-> "v1.28", os |-> "linux",
      runtime |-> "containerd",
      addresses |-> <<<<"InternalIP", "10.0.0.3">>, <<"Hostname", "n2">>>>]}

NamespaceSet ==
    {[name |-> "default", status |-> "Active", creation_timestamp |-> now - 172800],
     [name |-> "kube-system", status |-> None, creation_timestamp |-> now - 3700]}

PodSet ==
    {[name |-> "p1", phase |-> "Running", pod_ip |-> "10.1.0.1", node_name |-> "n1"],
     [name |-> "p2", phase |-> "Pending", pod_ip |-> None, node_name |-> None]}

\* The frame of a facade method that main() calls from the if/elif chain.
ReadOnlyFrame ==
    UNCHANGED <<args, self, kubeContext, loads, exc, file, idx, now, age_in, age_out>>

\* get_api_resources and print_cluster_info.
print_cluster_info ==
    /\ pc = "chain"
    /\ Branch = "print_cluster_info"
    /\ \E r \in ListOutcomes :
        /\ calls' = Append(calls,
                Call(self["v1"], "get_api_resources", None, None, NoBody, 0, r))
        /\ out' = out
             \o (IF r = Ok THEN <<<<"API Resources", "12">>>>
                 ELSE <<<<"Error getting API resources", ToString(r.status)>>>>)
             \o <<<<"KubeDNS is running at", ApiHost>>,
                  <<"Kubernetes control plane is running at", ApiHost>>>>
    /\ dispatched' = Append(dispatched, "print_cluster_info")
    /\ ret' = None
    /\ pc' = "tail"
    /\ ReadOnlyFrame

print_api_versions ==
    /\ pc = "chain"
    /\ Branch = "print_api_versions"
    /\ \E r \in ListOutcomes :
        /\ calls' = Append(calls,
                Call("VersionApi", "get_code", None, None, NoBody, 0, r))
        /\ out' = out
             \o (IF r = Ok
                 THEN <<<<"Kubernetes API Versions:">>, <<"Major", "1">>,
                        <<"Minor", "28">>, <<"Platform", "linux/amd64">>>>
                 ELSE <<<<"Error getting API versions", ToString(r.status)>>>>)
    /\ dispatched' = Append(dispatched, "print_api_versions")
    /\ ret' = None
    /\ pc' = "tail"
    /\ ReadOnlyFrame

RECURSIVE NodeLines(_)
NodeLines(nodes) ==
    IF nodes = <<>> THEN <<>>
    ELSE LET node == Head(nodes) IN
         <<<<"  Name", node.name>>, <<"    Status", node.phase>>,
           <<"    Kubernetes Version", node.kubelet>>,
           <<"    OS Image", node.os>>,
           <<"    Container Runtime", node.runtime>>,
           <<"    Addresses:">>>>
         \o node.addresses \o <<<<"">>>> \o NodeLines(Tail(nodes))

\* get_nodes and print_nodes_info.
print_nodes_info ==
    /\ pc = "chain"
    /\ Branch = "print_nodes_info"
    /\ \E r \in ListOutcomes, items \in DistinctSeqsUpTo(NodeSet, MaxItems) :
        /\ r # Ok => items = <<>>
        /\ calls' = Append(calls,
                Call(self["v1"], "list_node", None, None, NoBody, 0,
                     IF r = Ok THEN Returned(items) ELSE r))
        /\ out' = out
             \o (IF r = Ok THEN <<>>
                 ELSE <<<<"Error getting nodes", ToString(r.status)>>>>)
             \o (IF r = Ok /\ items # <<>>
                 THEN <<<<"Cluster Nodes:">>>> \o NodeLines(items)
                 ELSE <<<<"No nodes found or error occurred while fetching nodes.">>>>)
    /\ dispatched' = Append(dispatched, "print_nodes_info")
    /\ ret' = None
    /\ pc' = "tail"
    /\ ReadOnlyFrame

RECURSIVE NamespaceLines(_)
NamespaceLines(namespaces) ==
    IF namespaces = <<>> THEN <<>>
    ELSE LET namespace == Head(namespaces) IN
         <<<<"row", namespace.name,
             IF namespace.status # None THEN namespace.status ELSE "Unknown",
             calculate_age(namespace.creation_timestamp)>>>>
         \o NamespaceLines(Tail(namespaces))

\* get_all_namespaces and print_namespaces_info.
print_namespaces_info ==
    /\ pc = "chain"
    /\ Branch = "print_namespaces_info"
    /\ \E r \in ListOutcomes, items \in DistinctSeqsUpTo(NamespaceSet, MaxItems) :
        /\ r # Ok => items = <<>>
        /\ calls' = Append(calls,
                Call(self["v1"], "list_namespace", None, None, NoBody, 0,
                     IF r = Ok THEN Returned(items) ELSE r))
        /\ out' = out
             \o (IF r = Ok THEN <<>>
                 ELSE <<<<"Exception when listing namespaces", ToString(r.status)>>>>)
             \o <<<<"NAMESPACE\tSTATUS\tAGE">>>>
             \o (IF r = Ok THEN NamespaceLines(items) ELSE <<>>)
             \o <<<<"">>>>
    /\ dispatched' = Append(dispatched, "print_namespaces_info")
    /\ ret' = None
    /\ pc' = "tail"
    /\ ReadOnlyFrame

PodsNamespaceAlwaysDefault == "default"

\* The namespace list_pods passes to list_namespaced_pod.
PodsNamespace == self["namespace"]

\* The lines list_pods prints for the returned pods, in the returned order.
RECURSIVE PodLines(_)
PodLines(pods) ==
    IF pods = <<>> THEN <<>>
    ELSE LET pod == Head(pods) IN
         <<<<"Name", pod.name>>, <<"  Status", pod.phase>>, <<"  IP", pod.pod_ip>>,
           <<"  Node", pod.node_name>>, <<"---">>>>
         \o PodLines(Tail(pods))

\* if args.list_pods: k8s_cluster.list_pods()
list_pods ==
    /\ pc = "tail"
    /\ args.list_pods
    /\ \E r \in ListOutcomes, items \in DistinctSeqsUpTo(PodSet, MaxItems) :
        /\ r # Ok => items = <<>>
        /\ calls' = Append(calls,
                Call("CoreV1Api", "list_namespaced_pod", PodsNamespace, None,
                     NoBody, 0, IF r = Ok THEN Returned(items) ELSE r))
        /\ out' = out
             \o (IF r = Ok
                 THEN <<<<"Pods in namespace", self["namespace"]>>>> \o PodLines(items)
                 ELSE <<<<"Exception when calling CoreV1Api->list_namespaced_pod",
                          ToString(r.status)>>>>)
    /\ dispatched' = Append(dispatched, "list_pods")
    /\ ret' = None
    /\ pc' = "done"
    /\ ReadOnlyFrame

\* else: parser.print_help()
print_help ==
    /\ pc = "tail"
    /\ ~args.list_pods
    /\ out' = Append(out, <<"usage">>)
    /\ pc' = "done"
    /\ UNCHANGED <<args, self, kubeContext, loads, calls, dispatched, exc, ret,
                   file, idx, now, age_in, age_out>>

\* No flag of the if/elif chain was given.
NoChainFlag ==
    /\ pc = "chain"
    /\ Branch = "none"
    /\ pc' = "tail"
    /\ UNCHANGED <<args, self, kubeContext, loads, calls, out, dispatched, exc, ret,
                   file, idx, now, age_in, age_out>>

----------------------------------------------------------------------------
(* switch_context.                                                         *)

\* contexts, active_context = config.list_kube_config_contexts()
KubeConfigContexts == {[name |-> c] : c \in KnownContexts}

context_found_always(context_name, contexts) == TRUE

\* context_name in [ctx['name'] for ctx in contexts]
context_found(context_name, contexts) ==
    context_name \in {ctx.name : ctx \in contexts}

switch_context ==
    /\ pc = "chain"
    /\ Branch = "switch_context"
    /\ LET context_name == args.switch_context IN
       \/ \* list_kube_config_contexts raises: except Exception
          /\ out' = Append(out, <<"Error switching context", "ConfigException">>)
          /\ ret' = "False"
          /\ UNCHANGED <<loads, kubeContext>>
       \/ /\ ~context_found(context_name, KubeConfigContexts)
          /\ out' = Append(out, <<"Context not found", context_name>>)
          /\ ret' = "False"
          /\ UNCHANGED <<loads, kubeContext>>
       \/ /\ context_found(context_name, KubeConfigContexts)
          /\ loads' = Append(loads, context_name)
          /\ \/ /\ kubeContext' = context_name
                /\ out' = Append(out, <<"Switched to context", context_name>>)
                /\ ret' = "True"
             \/ \* load_kube_config raises: except Exception
                /\ kubeContext' = kubeContext
                /\ out' = Append(out, <<"Error switching context", "ConfigException">>)
                /\ ret' = "False"
    /\ dispatched' = Append(dispatched, "switch_context")
    /\ pc' = "tail"
    /\ UNCHANGED <<args, self, calls, exc, file, idx, now, age_in, age_out>>

----------------------------------------------------------------------------
(* apply.                                                                  *)

\* The documents of a file: kind may be missing (None), metadata.name is there.
Docs ==
    [kind : {"Deployment", "service", "Pod", "ConfigMap", None}, name : {"a"}]
        \cup {[kind |-> "service", name |-> "b"]}

\* A file: its well-formed documents, and whether a YAML syntax error follows
\* them (safe_load_all is lazy: the error is raised when the loop asks for the
\* next document).
Files == [docs : SeqsUpTo(Docs, MaxDocs), bad : BOOLEAN]

\* doc.get("kind", "")
KindOf(doc) == IF doc.kind = None THEN "" ELSE doc.kind

Unsupported == [attr |-> None, create |-> None, patch |-> None]

ApiForUnknownKindAsPod(kind) ==
    IF kind = "deployment"
    THEN [attr |-> "apps_v1", create |-> "create_namespaced_deployment",
          patch |-> "patch_namespaced_deployment"]
    ELSE IF kind = "service"
    THEN [attr |-> "v1", create |-> "create_namespaced_service",
          patch |-> "patch_namespaced_service"]
    ELSE [attr |-> "v1", create |-> "create_namespaced_pod",
          patch |-> "patch_namespaced_pod"]

\* The if/elif on kind: the handle and its create and patch methods.
ApiFor(kind) ==
    IF kind = "deployment"
    THEN [attr |-> "apps_v1", create |-> "create_namespaced_deployment",
          patch |-> "patch_namespaced_deployment"]
    ELSE IF kind = "service"
    THEN [attr |-> "v1", create |-> "create_namespaced_service",
          patch |-> "patch_namespaced_service"]
    ELSE IF kind = "pod"
    THEN [attr |-> "v1", create |-> "create_namespaced_pod",
          patch |-> "patch_namespaced_pod"]
    ELSE Unsupported

PatchOutcomes == {Ok, ApiException(422)}

ApplyFrame == UNCHANGED <<args, self, kubeContext, loads, exc, now, age_in, age_out>>

\* with open(filename, 'r') as f: docs = yaml.safe_load_all(f)
apply_open ==
    /\ pc = "chain"
    /\ Branch = "apply"
    /\ dispatched' = Append(dispatched, "apply")
    /\ \/ /\ out' = Append(out, <<"Error applying configuration", "FileNotFoundError">>)
          /\ ret' = None
          /\ pc' = "tail"
          /\ UNCHANGED <<file, idx>>
       \/ /\ file' \in Files
          /\ idx' = 1
          /\ pc' = "apply_loop"
          /\ UNCHANGED <<out, ret>>
    /\ calls' = calls
    /\ ApplyFrame

\* One iteration of `for doc in docs`.
apply_doc ==
    /\ pc = "apply_loop"
    /\ idx <= Len(file.docs)
    /\ LET doc    == file.docs[idx]
           kind   == Lower(KindOf(doc))
           name   == doc.name
           target == ApiFor(kind)
       IN
       IF target = Unsupported
       THEN /\ out' = Append(out, <<"Unsupported resource kind", kind>>)
            /\ idx' = idx + 1
            /\ UNCHANGED <<calls, pc, ret>>
       ELSE IF ~HasAttr(target.attr)
       THEN \* AttributeError, caught by the outer except Exception
            /\ out' = Append(out, <<"Error applying configuration", "AttributeError">>)
            /\ ret' = None
            /\ pc' = "tail"
            /\ UNCHANGED <<calls, idx>>
       ELSE \E r \in WriteOutcomes :
            LET created == Call(self[target.attr], target.create, self["namespace"],
                                None, doc, idx, r)
            IN
            IF r = Ok
            THEN /\ calls' = Append(calls, created)
                 /\ out' = Append(out, <<"created", Capitalize(kind), name>>)
                 /\ idx' = idx + 1
                 /\ UNCHANGED <<pc, ret>>
            ELSE IF r.status = Conflict
            THEN \E u \in PatchOutcomes :
                 LET patched == Call(self[target.attr], target.patch,
                                     self["namespace"], name, doc, idx, u)
                 IN
                 /\ calls' = calls \o <<created, patched>>
                 /\ IF u = Ok
                    THEN /\ out' = Append(out, <<"updated", Capitalize(kind), name>>)
                         /\ idx' = idx + 1
                         /\ UNCHANGED <<pc, ret>>
                    ELSE \* raised inside the handler: the outer except Exception
                         /\ out' = Append(out,
                                <<"Error applying configuration", "ApiException">>)
                         /\ ret' = None
                         /\ pc' = "tail"
                         /\ idx' = idx
            ELSE /\ calls' = Append(calls, created)
                 /\ out' = Append(out, <<"Error applying", kind, name,
                                         ToString(r.status)>>)
                 /\ idx' = idx + 1
                 /\ UNCHANGED <<pc, ret>>
    /\ UNCHANGED <<file, dispatched>>
    /\ ApplyFrame

\* The loop asks for a document after the last well-formed one.
apply_end ==
    /\ pc = "apply_loop"
    /\ idx > Len(file.docs)
    /\ out' = IF file.bad
              THEN Append(out, <<"Error applying configuration", "YAMLError">>)
              ELSE out
    /\ ret' = None
    /\ pc' = "tail"
    /\ UNCHANGED <<file, idx, calls, dispatched>>
    /\ ApplyFrame

----------------------------------------------------------------------------
(* create.                                                                 *)

V1Deployment(name, image, replicas) ==
    [type |-> "V1Deployment", name |-> name, replicas |-> replicas,
     match_labels |-> [app |-> name], template_labels |-> [app |-> name],
     containers |-> <<[name |-> name, image |-> image]>>]

V1Service(name) ==
    [type |-> "V1Service", name |-> name, selector |-> [app |-> name],
     ports |-> <<80>>]

create ==
    /\ pc = "chain"
    /\ Branch = "create"
    /\ dispatched' = Append(dispatched, "create")
    /\ LET resource_type == args.create[1]
           name          == args.create[2]
           image         == args.create[3]
           replicas      == args.replicas
       IN
       IF Lower(resource_type) = "deployment"
       THEN LET body == V1Deployment(name, image, replicas) IN
            IF ~HasAttr("apps_v1")
            THEN \* AttributeError is no ApiException: it leaves create and main
                 /\ exc' = "AttributeError"
                 /\ pc' = "crashed"
                 /\ UNCHANGED <<calls, out, ret>>
            ELSE \E r \in WriteOutcomes :
                 /\ calls' = Append(calls,
                        Call(self["apps_v1"], "create_namespaced_deployment",
                             self["namespace"], None, body, 0, r))
                 /\ out' = Append(out,
                        IF r = Ok THEN <<"created", "Deployment", name>>
                        ELSE <<"Error creating", resource_type, ToString(r.status)>>)
                 /\ ret' = None
                 /\ pc' = "tail"
                 /\ exc' = exc
       ELSE IF Lower(resource_type) = "service"
       THEN LET body == V1Service(name) IN
            \E r \in WriteOutcomes :
                 /\ calls' = Append(calls,
                        Call(self["v1"], "create_namespaced_service",
                             self["namespace"], None, body, 0, r))
                 /\ out' = Append(out,
                        IF r = Ok THEN <<"created", "Service", name>>
                        ELSE <<"Error creating", resource_type, ToString(r.status)>>)
                 /\ ret' = None
                 /\ pc' = "tail"
                 /\ exc' = exc
       ELSE /\ out' = Append(out, <<"Unsupported resource type", resource_type>>)
            /\ ret' = None
            /\ pc' = "tail"
            /\ UNCHANGED <<calls, exc>>
    /\ UNCHANGED <<args, self, kubeContext, loads, file, idx, now, age_in, age_out>>

Next ==
    \/ Construct
    \/ SetNamespace
    \/ print_cluster_info
    \/ print_api_versions
    \/ print_nodes_info
    \/ print_namespaces_info
    \/ switch_context
    \/ apply_open
    \/ apply_doc
    \/ apply_end
    \/ create
    \/ NoChainFlag
    \/ list_pods
    \/ print_help

Spec == Init /\ [][Next]_vars

----------------------------------------------------------------------------
(* calculate_age on its own: the creation time is drawn, the function is   *)
(* applied once.                                                           *)

NoArgs ==
    [namespace |-> None, cluster_info |-> FALSE, api_versions |-> FALSE,
     nodes |-> FALSE, list_namespaces |-> FALSE, switch_context |-> None,
     apply |-> None, create |-> <<>>, replicas |-> <<>>, list_pods |-> FALSE]

InitAge ==
    /\ args = NoArgs
    /\ pc = "age"
    /\ self = [a \in {} |-> None]
    /\ kubeContext = None
    /\ loads = <<>>
    /\ calls = <<>>
    /\ out = <<>>
    /\ dispatched = <<>>
    /\ exc = "none"
    /\ ret = None
    /\ file = NoFile
    /\ idx = 0
    /\ now = 2 * MaxAgeSeconds
    /\ age_in \in {now - s : s \in 0..MaxAgeSeconds}
    /\ age_out = None

calculate_age_call ==
    /\ pc = "age"
    /\ age_out' = calculate_age(age_in)
    /\ pc' = "age_done"
    /\ UNCHANGED <<args, self, kubeContext, loads, calls, out, dispatched, exc, ret,
                   file, idx, now, age_in>>

NextAge == calculate_age_call

SpecAge == InitAge /\ [][NextAge]_vars

----------------------------------------------------------------------------
(* The properties.                                                         *)

\* An action flag is on the command line.
AnyActionFlag ==
    \/ args.cluster_info
    \/ args.api_versions
    \/ args.nodes
    \/ args.list_namespaces
    \/ args.switch_context # None
    \/ args.apply # None
    \/ args.create # <<>>
    \/ args.list_pods

\* The namespace selected on the command line.
SelectedNamespace == IF args.namespace # None THEN args.namespace ELSE "default"

\* The calls made for document i of the applied file, in order.
CallsOf(i) == SelectSeq(calls, LAMBDA c : c.doc = i)

\* The lines of `out` that start with `text`.
LinesOf(text) == SelectSeq(out, LAMBDA m : m[1] = text)

\* deployment, service or pod, compared case-insensitively.
IsSupportedKind(doc) ==
    doc.kind \in {"deployment", "Deployment", "service", "Service", "pod", "Pod"}

ApplyReturned == pc \in {"tail", "done"} /\ "apply" \in Range(dispatched)

\* C1: no exception leaves a facade operation that main() invoked: once an
\* operation has been dispatched, main() has not been left by an exception.
C1_NoExceptionLeavesAnOperation ==
    dispatched # <<>> => exc = "none"

\* C2: when main() has run to its end, the help text has been printed if and
\* only if no action flag was on the command line.
C2_HelpIffNoFlag ==
    pc = "done" => ((<<"usage">> \in Range(out)) <=> ~AnyActionFlag)

\* C3: with at least one action flag, main() dispatches exactly one facade
\* method: the first present flag of the chain, or list_pods when the chain
\* has none.
C3_ExactlyOneDispatch ==
    (pc = "done" /\ AnyActionFlag) =>
        /\ Len(dispatched) = 1
        /\ dispatched[1] = (IF Branch # "none" THEN Branch ELSE "list_pods")

\* C4: for a creation time s >= 0 whole seconds before now, calculate_age
\* returns the first non-zero unit of days, hours, minutes, seconds of s.
C4_AgeBuckets ==
    pc = "age_done" =>
        LET s == now - age_in IN
        s >= 0 =>
            /\ age_out = (IF s >= 86400 THEN ToString(s \div 86400) \o "d"
                          ELSE IF s >= 3600 THEN ToString(s \div 3600) \o "h"
                          ELSE IF s >= 60 THEN ToString(s \div 60) \o "m"
                          ELSE ToString(s) \o "s")
            /\ s = 90 => age_out = "1m"
            /\ s = 3700 => age_out = "1h"
            /\ s = 2 * 86400 => age_out = "2d"
            /\ s = 30 => age_out = "30s"

C4_Witness ==
    pc = "age_done" /\ now - age_in = 3700 /\ age_out = "1h"

\* C5: when apply has returned, every document of a supported kind has had
\* exactly one create call, made first, and one patch call after it if and
\* only if the create failed with a conflict.
C5_CreateThenPatchOnConflict ==
    ApplyReturned =>
        \A i \in 1..Len(file.docs) :
            IsSupportedKind(file.docs[i]) =>
                LET cs == CallsOf(i) IN
                /\ Len(cs) >= 1
                /\ cs[1].op \in {"create_namespaced_deployment",
                                 "create_namespaced_service", "create_namespaced_pod"}
                /\ IF cs[1].res.status = Conflict
                   THEN /\ Len(cs) = 2
                        /\ cs[2].op \in {"patch_namespaced_deployment",
                                         "patch_namespaced_service",
                                         "patch_namespaced_pod"}
                   ELSE Len(cs) = 1

\* C6: after switch_context, the facade's namespace and handle are as before;
\* with a name absent from the known contexts no configuration was loaded,
\* the bound context is unchanged, False is returned and (the context list
\* having been read) the not-found message printed; with a known name the
\* only configuration loaded is that of this context, and unless a
\* configuration call raised, the context is bound, the switch reported and
\* True returned.
C6_SwitchContext ==
    "switch_context" \in Range(dispatched) =>
        LET context_name == args.switch_context
            raised == <<"Error switching context", "ConfigException">> \in Range(out)
        IN
        /\ self["namespace"] = SelectedNamespace
        /\ self["v1"] = "CoreV1Api"
        /\ \A i \in 2..Len(loads) : loads[i] = context_name
        /\ Len(loads) <= 2
        /\ context_name \notin KnownContexts =>
              /\ loads = <<None>>
              /\ kubeContext = CurrentContext
              /\ pc = "tail" => ret = "False"
              /\ ~raised => <<"Context not found", context_name>> \in Range(out)
              /\ <<"Switched to context", context_name>> \notin Range(out)
        /\ (context_name \in KnownContexts /\ ~raised) =>
              /\ loads = <<None, context_name>>
              /\ kubeContext = context_name
              /\ pc = "tail" => ret = "True"
              /\ <<"Switched to context", context_name>> \in Range(out)
        /\ (pc = "tail" /\ raised) => ret = "False"

C6_Witness ==
    /\ pc = "tail"
    /\ args.switch_context = "ghost"
    /\ ret = "False"
    /\ <<"Context not found", "ghost">> \in Range(out)

C8_CreateIssuesOneCall ==
    "create" \in Range(dispatched) =>
        LET resource_type == args.create[1]
            name == args.create[2]
            image == args.create[3]
            cs == SelectSeq(calls, LAMBDA c :
                    c.op \in {"create_namespaced_deployment",
                              "create_namespaced_service", "create_namespaced_pod"})
        IN
        IF resource_type \in {"deployment", "Deployment"}
        THEN /\ Len(cs) = 1
             /\ cs[1].op = "create_namespaced_deployment"
             /\ cs[1].ns = SelectedNamespace
             /\ cs[1].body.replicas = args.replicas
             /\ cs[1].body.match_labels = [app |-> name]
             /\ cs[1].body.template_labels = [app |-> name]
             /\ cs[1].body.containers = <<[name |-> name, image |-> image]>>
        ELSE IF resource_type \in {"service", "Service"}
        THEN /\ Len(cs) = 1
             /\ cs[1].op = "create_namespaced_service"
             /\ cs[1].ns = SelectedNamespace
             /\ cs[1].body.selector = [app |-> name]
             /\ cs[1].body.ports = <<80>>
        ELSE /\ cs = <<>>
             /\ <<"Unsupported resource type", resource_type>> \in Range(out)

\* C9: list_pods makes one list call, for the selected namespace; when it
\* returns, the last lines printed are the header and then name, phase, pod
\* IP and node of each returned pod, in the returned order (the header alone
\* for no pods); when it fails, the error line and neither header nor entry.
C9_ListPods ==
    (pc = "done" /\ args.list_pods) =>
        LET c == calls[Len(calls)] IN
        /\ Len(SelectSeq(calls, LAMBDA k : k.op = "list_namespaced_pod")) = 1
        /\ c.op = "list_namespaced_pod"
        /\ c.ns = SelectedNamespace
        /\ IF c.res.raised = "none"
           THEN LET items == c.res.items
                    base == Len(out) - 5 * Len(items)
                IN
                /\ base >= 1
                /\ out[base] = <<"Pods in namespace", SelectedNamespace>>
                /\ Len(LinesOf("Pods in namespace")) = 1
                /\ Len(LinesOf("Name")) = Len(items)
                /\ \A i \in 1..Len(items) :
                      LET at == base + 5 * (i - 1) IN
                      /\ out[at + 1] = <<"Name", items[i].name>>
                      /\ out[at + 2] = <<"  Status", items[i].phase>>
                      /\ out[at + 3] = <<"  IP", items[i].pod_ip>>
                      /\ out[at + 4] = <<"  Node", items[i].node_name>>
                      /\ out[at + 5] = <<"---">>
           ELSE /\ out[Len(out)] =
                      <<"Exception when calling CoreV1Api->list_namespaced_pod",
                        ToString(c.res.status)>>
                /\ LinesOf("Pods in namespace") = <<>>
                /\ LinesOf("Name") = <<>>

C9_Witness ==
    /\ pc = "done"
    /\ args.list_pods
    /\ args.namespace = "prod"
    /\ calls[Len(calls)].res.raised = "none"
    /\ Len(calls[Len(calls)].res.items) = 2
    /\ out[Len(out) - 10] = <<"Pods in namespace", "prod">>

\* C10: a call that fails for one document does not stop the loop: when
\* apply has returned, every service or pod document that follows a document
\* whose create failed without conflict, or whose patch failed, has had its
\* own create call.
C10_FailedCallDoesNotStopLoop ==
    (ApplyReturned /\ \A k \in 1..Len(file.docs) : file.docs[k].kind # "Deployment") =>
        \A i, j \in 1..Len(file.docs) :
            LET cs == CallsOf(i) IN
            (/\ i < j
             /\ cs # <<>>
             /\ cs[Len(cs)].res.raised = "ApiException"
             /\ IsSupportedKind(file.docs[j]))
            => CallsOf(j) # <<>>

====
